---- MODULE Spec2Model ----
(***************************************************************************)
(* Model of pipeline/tools/parser.py: the recursive-descent Parser over a  *)
(* token sequence and the MintPrinter that serialises the AST.             *)
(*                                                                         *)
(* Strings are sequences of one-character strings, so that split, strip,   *)
(* join, the anchor regular expressions and the indentation prefix are     *)
(* computed character by character as the Python code computes them.       *)
(***************************************************************************)
EXTENDS Integers, Sequences, FiniteSets, TLC

(***************************************************************************)
(* String helpers (Python str methods used by the parser and the printer)  *)
(***************************************************************************)

\* " " * n
Spaces(n) == [i \in 1..n |-> " "]

\* "#" * n
Repeat(c, n) == [i \in 1..n |-> c]

\* s[i:] with a 0-based Python start index i
DropFirst(s, i) == IF i >= Len(s) THEN <<>> ELSE SubSeq(s, i + 1, Len(s))

\* s.startswith(p)
StartsWith(s, p) == Len(s) >= Len(p) /\ SubSeq(s, 1, Len(p)) = p

\* c in s
Contains(s, c) == \E i \in 1..Len(s) : s[i] = c

\* index of the first character of s at or after i that is (not) in cs; Len(s)+1 if none
RECURSIVE FirstIn(_, _, _)
FirstIn(s, i, cs) ==
    IF i > Len(s) THEN Len(s) + 1
    ELSE IF s[i] \in cs THEN i ELSE FirstIn(s, i + 1, cs)

RECURSIVE FirstNotIn(_, _, _)
FirstNotIn(s, i, cs) ==
    IF i > Len(s) THEN Len(s) + 1
    ELSE IF s[i] \notin cs THEN i ELSE FirstNotIn(s, i + 1, cs)

\* index of the last character of s at or before i that is not in cs; 0 if none
RECURSIVE LastNotIn(_, _, _)
LastNotIn(s, i, cs) ==
    IF i < 1 THEN 0
    ELSE IF s[i] \notin cs THEN i ELSE LastNotIn(s, i - 1, cs)

\* index of the last character of s at or before i that is in cs; 0 if none
RECURSIVE LastIn(_, _, _)
LastIn(s, i, cs) ==
    IF i < 1 THEN 0
    ELSE IF s[i] \in cs THEN i ELSE LastIn(s, i - 1, cs)

\* the whitespace characters that occur in the model's strings
WS == {" ", "\n"}

\* s.lstrip(chars), s.rstrip(chars), s.strip(chars)
LStripChars(s, cs) == DropFirst(s, FirstNotIn(s, 1, cs) - 1)
RStripChars(s, cs) == SubSeq(s, 1, LastNotIn(s, Len(s), cs))
StripChars(s, cs) == RStripChars(LStripChars(s, cs), cs)

\* s.strip(), s.rstrip()
Strip(s) == StripChars(s, WS)
RStrip(s) == RStripChars(s, WS)

\* sep.join(parts), sep a string
RECURSIVE JoinFrom(_, _, _)
JoinFrom(parts, sep, i) ==
    IF i > Len(parts) THEN <<>>
    ELSE IF i = Len(parts) THEN parts[i]
    ELSE parts[i] \o sep \o JoinFrom(parts, sep, i + 1)

Join(parts, sep) == JoinFrom(parts, sep, 1)

\* s.split(c): every occurrence of the character c separates two fields
RECURSIVE SplitAllFrom(_, _, _)
SplitAllFrom(s, c, i) ==
    LET j == FirstIn(s, i, {c})
    IN  IF j > Len(s) THEN << SubSeq(s, i, Len(s)) >>
        ELSE << SubSeq(s, i, j - 1) >> \o SplitAllFrom(s, c, j + 1)

SplitAll(s, c) == SplitAllFrom(s, c, 1)

\* s.split(c, 1): at most two fields, split at the first c
SplitFirst(s, c) ==
    LET j == FirstIn(s, 1, {c})
    IN  IF j > Len(s) THEN << s >>
        ELSE << SubSeq(s, 1, j - 1), SubSeq(s, j + 1, Len(s)) >>

\* s.rsplit(c, 1): at most two fields, split at the last c
SplitLast(s, c) ==
    LET j == LastIn(s, Len(s), {c})
    IN  IF j = 0 THEN << s >>
        ELSE << SubSeq(s, 1, j - 1), SubSeq(s, j + 1, Len(s)) >>

\* s.split(None, maxsplit): fields separated by runs of whitespace, leading
\* whitespace dropped; after maxsplit splits the rest (less its leading
\* whitespace) is the last field
RECURSIVE WsSplitFrom(_, _, _)
WsSplitFrom(s, i, maxsplit) ==
    LET b == FirstNotIn(s, i, WS)
        e == FirstIn(s, b, WS)
    IN  IF b > Len(s) THEN <<>>
        ELSE IF maxsplit = 0 THEN << SubSeq(s, b, Len(s)) >>
        ELSE << SubSeq(s, b, e - 1) >> \o WsSplitFrom(s, e, maxsplit - 1)

WsSplit(s, maxsplit) == WsSplitFrom(s, 1, maxsplit)

UpperCase == << "A", "B", "C", "D", "E", "F", "G", "H", "I", "J", "K", "L", "M",
               "N", "O", "P", "Q", "R", "S", "T", "U", "V", "W", "X", "Y", "Z" >>
LowerCase == << "a", "b", "c", "d", "e", "f", "g", "h", "i", "j", "k", "l", "m",
               "n", "o", "p", "q", "r", "s", "t", "u", "v", "w", "x", "y", "z" >>
Digits == { "0", "1", "2", "3", "4", "5", "6", "7", "8", "9" }
Uppers == { UpperCase[i] : i \in 1..26 }
Lowers == { LowerCase[i] : i \in 1..26 }

\* the character ` (a TLA+ string literal cannot hold it)
Backtick == "BACKTICK"

\* c.lower()
LowerChar(c) ==
    IF c \in Uppers THEN LowerCase[CHOOSE i \in 1..26 : UpperCase[i] = c] ELSE c

\* s.lower()
Lower(s) == [i \in 1..Len(s) |-> LowerChar(s[i])]

(***************************************************************************)
(* Tokens (pipeline.tools.lexer.Token) and the parser's results            *)
(***************************************************************************)

\* Token(type, value, line, indent)
Tok(type, value, line, indent) ==
    [type |-> type, value |-> value, line |-> line, indent |-> indent]

\* token=None in a ParseError, and the token of an error that carries none
NoTok == Tok("NONE", <<>>, 0, 0)

NoNode == [type |-> "None"]

\* a parse function that returned `node`, leaving the cursor (self._token) at pos
Ok(node, pos) ==
    [st |-> "ok", node |-> node, pos |-> pos, line |-> 0, tok |-> NoTok,
     expected |-> "", message |-> ""]

\* raise ParseError(message, line=line, token=tok, expected=expected, ...),
\* raised with the cursor at pos
ParseError(message, pos, line, tok, expected) ==
    [st |-> "ParseError", node |-> NoNode, pos |-> pos, line |-> line, tok |-> tok,
     expected |-> expected, message |-> message]

\* raise ValueError(message) / an IndexError: exceptions that are not ParseError
\* and carry no line, token or expectation
OtherError(kind, message, pos) ==
    [st |-> kind, node |-> NoNode, pos |-> pos, line |-> 0, tok |-> NoTok,
     expected |-> "", message |-> message]

\* A block loop whose body returned without consuming a token: the cursor is the
\* only state the loop condition reads, so the loop repeats the same iteration
\* for ever (appending one more empty Paragraph each time) and parse() never
\* returns.
Hang(pos) ==
    [st |-> "hang", node |-> NoNode, pos |-> pos, line |-> 0, tok |-> NoTok,
     expected |-> "", message |-> "block loop makes no progress"]

\* Parser._advance: consume the current token; the token iterator is exhausted
\* once EOF, the last token, is the current one
AdvanceFails(toks, pos) == pos >= Len(toks)

AdvanceError(toks, pos) ==
    ParseError("Unexpected end of input", pos, toks[pos].line, toks[pos], "more tokens")

\* Parser._check
Check(toks, pos, kinds) == toks[pos].type \in kinds

(***************************************************************************)
(* AST nodes                                                               *)
(***************************************************************************)

Document(blocks, start_line, limit_line) ==
    [type |-> "Document", blocks |-> blocks, start_line |-> start_line,
     limit_line |-> limit_line]

Heading(level, value, start_line, limit_line) ==
    [type |-> "Heading", level |-> level, value |-> value, start_line |-> start_line,
     limit_line |-> limit_line]

Paragraph(value, start_line, limit_line) ==
    [type |-> "Paragraph", value |-> value, start_line |-> start_line,
     limit_line |-> limit_line]

CodeBlock(language, meta, content, start_line, limit_line) ==
    [type |-> "CodeBlock", language |-> language, meta |-> meta, content |-> content,
     start_line |-> start_line, limit_line |-> limit_line]

ListItem(blocks, start_line, limit_line) ==
    [type |-> "ListItem", blocks |-> blocks, start_line |-> start_line,
     limit_line |-> limit_line]

UnorderedList(items, start_line, limit_line) ==
    [type |-> "UnorderedList", items |-> items, start_line |-> start_line,
     limit_line |-> limit_line]

OrderedList(items, start_line, limit_line) ==
    [type |-> "OrderedList", items |-> items, start_line |-> start_line,
     limit_line |-> limit_line]

QuoteBlock(lines, start_line, limit_line) ==
    [type |-> "QuoteBlock", lines |-> lines, start_line |-> start_line,
     limit_line |-> limit_line]

Tab(title, blocks, start_line, limit_line) ==
    [type |-> "Tab", title |-> title, blocks |-> blocks, start_line |-> start_line,
     limit_line |-> limit_line]

TabBlock(tabs, start_line, limit_line) ==
    [type |-> "TabBlock", tabs |-> tabs, start_line |-> start_line,
     limit_line |-> limit_line]

Admonition(tag, kind, title, blocks, start_line, limit_line) ==
    [type |-> "Admonition", tag |-> tag, kind |-> kind, title |-> title,
     blocks |-> blocks, start_line |-> start_line, limit_line |-> limit_line]

FrontMatter(content, start_line, limit_line) ==
    [type |-> "FrontMatter", content |-> content, start_line |-> start_line,
     limit_line |-> limit_line]

HTMLBlock(content, start_line, limit_line) ==
    [type |-> "HTMLBlock", content |-> content, start_line |-> start_line,
     limit_line |-> limit_line]

ConditionalBlock(language, blocks, indent, start_line, limit_line) ==
    [type |-> "ConditionalBlock", language |-> language, blocks |-> blocks,
     indent |-> indent, start_line |-> start_line, limit_line |-> limit_line]

(***************************************************************************)
(* Parser: every parse function takes the token sequence and the cursor    *)
(* and returns Ok(node, cursor after) or the exception it raises           *)
(***************************************************************************)

RECURSIVE ParseBlock(_, _)
RECURSIVE BlocksUntilIndentLoop(_, _, _, _)
RECURSIVE ListLoop(_, _, _, _, _)
RECURSIVE TabLoop(_, _, _)
RECURSIVE ConditionalLoop(_, _, _)

\* Parser._parse_front_matter: the loop that collects the content lines
RECURSIVE FrontMatterLoop(_, _, _, _)
FrontMatterLoop(toks, open, pos, lines) ==
    IF Check(toks, pos, {"FRONT_MATTER"})
    THEN Ok(FrontMatter(Join(lines, <<"\n">>), toks[open].line, toks[pos].line + 1),
            pos + 1)
    ELSE IF AdvanceFails(toks, pos) THEN AdvanceError(toks, pos)
    ELSE FrontMatterLoop(toks, open, pos + 1, Append(lines, toks[pos].value))

\* Parser._parse_front_matter
ParseFrontMatter(toks, pos) == FrontMatterLoop(toks, pos, pos + 1, <<>>)

\* Parser._parse_heading
ParseHeading(toks, pos) ==
    LET token == toks[pos]
        parts == SplitFirst(token.value, " ")
    IN  IF Len(parts) < 2
        THEN OtherError("ValueError", "not enough values to unpack", pos + 1)
        ELSE Ok(Heading(Len(parts[1]), parts[2], token.line, token.line + 1), pos + 1)

\* UnclosedFenceLine reporting the line of the token the cursor is on (EOF)
UnclosedFenceLineAtCursor(toks, open, pos) == toks[pos].line

\* the line of an unclosed code block's ParseError: line=open_token.line
UnclosedFenceLine(toks, open, pos) == toks[open].line

\* Parser._parse_code_block: the loop that collects the body lines
RECURSIVE CodeBodyLoop(_, _, _, _)
CodeBodyLoop(toks, open, pos, body_lines) ==
    IF Check(toks, pos, {"FENCE"}) THEN Ok(body_lines, pos)
    ELSE IF Check(toks, pos, {"EOF"})
    THEN ParseError("Unclosed code block", pos, UnclosedFenceLine(toks, open, pos),
                    toks[open], "closing fence '```'")
    ELSE LET tok == toks[pos]
             rel_ident == IF tok.indent - toks[open].indent > 0
                          THEN tok.indent - toks[open].indent ELSE 0
         IN  CodeBodyLoop(toks, open, pos + 1,
                          Append(body_lines, Spaces(rel_ident) \o tok.value))

\* Parser._parse_code_block: the CodeBlock built once the loop has returned
\* `body` with the cursor on the closing fence
CodeBlockOf(toks, pos, body) ==
    LET parts == SplitFirst(Strip(DropFirst(toks[pos].value, 3)), " ")
        language == parts[1]
        meta == IF Len(parts) = 1 THEN <<>> ELSE parts[2]
    IN  IF body.st # "ok" THEN body
        ELSE Ok(CodeBlock(language, meta, Join(body.node, <<"\n">>), toks[pos].line,
                          toks[body.pos].line + 1),
                body.pos + 1)

\* Parser._parse_code_block
ParseCodeBlock(toks, pos) == CodeBlockOf(toks, pos, CodeBodyLoop(toks, pos, pos + 1, <<>>))

\* Parser._parse_blocks_until_indent
ParseBlocksUntilIndent(toks, pos, min_indent) ==
    BlocksUntilIndentLoop(toks, pos, min_indent, <<>>)

\* ListItemOf with the item ending at its marker's line: limit_line the line of
\* the marker token, not of the token after the item
ListItemOfEndsAtMarker(toks, pos, nested) ==
    LET marker_tok == toks[pos]
        first_text == IF Contains(marker_tok.value, " ")
                      THEN WsSplit(marker_tok.value, 1)[2] ELSE <<>>
        nested_blocks ==
            IF first_text # <<>>
            THEN << Paragraph(<< first_text >>, marker_tok.line,
                              marker_tok.line + 1) >> \o nested.node
            ELSE nested.node
    IN  IF nested.st # "ok" THEN nested
        ELSE Ok(ListItem(nested_blocks, marker_tok.line, marker_tok.line), nested.pos)

\* Parser._parse_list_item: the ListItem built once _parse_blocks_until_indent
\* has returned `nested`
ListItemOf(toks, pos, nested) ==
    LET marker_tok == toks[pos]
        first_text == IF Contains(marker_tok.value, " ")
                      THEN WsSplit(marker_tok.value, 1)[2] ELSE <<>>
        nested_blocks ==
            IF first_text # <<>>
            THEN << Paragraph(<< first_text >>, marker_tok.line,
                              marker_tok.line + 1) >> \o nested.node
            ELSE nested.node
    IN  IF nested.st # "ok" THEN nested
        ELSE Ok(ListItem(nested_blocks, marker_tok.line, toks[nested.pos].line),
                nested.pos)

\* Parser._parse_list_item
ParseListItem(toks, pos, list_indent) ==
    IF Contains(toks[pos].value, " ") /\ Len(WsSplit(toks[pos].value, 1)) < 2
    THEN OtherError("IndexError", "list index out of range", pos + 1)
    ELSE ListItemOf(toks, pos, ParseBlocksUntilIndent(toks, pos + 1, list_indent))

\* Parser._parse_list: the loop body after _parse_list_item has returned `item`
ListLoopNext(toks, marker_type, list_indent, items, item) ==
    IF item.st # "ok" THEN item
    ELSE ListLoop(toks, item.pos, marker_type, list_indent, Append(items, item.node))

\* Parser._parse_list: the loop over the items
ListLoop(toks, pos, marker_type, list_indent, items) ==
    IF Check(toks, pos, {marker_type}) /\ toks[pos].indent = list_indent
    THEN ListLoopNext(toks, marker_type, list_indent, items,
                      ParseListItem(toks, pos, list_indent))
    ELSE Ok(items, pos)

\* Parser._parse_list: the list built from the items the loop returned in `r`
ListOf(ordered, r) ==
    IF r.st # "ok" THEN r
    ELSE IF ordered
    THEN Ok(OrderedList(r.node, r.node[1].start_line, r.node[Len(r.node)].limit_line),
            r.pos)
    ELSE Ok(UnorderedList(r.node, r.node[1].start_line, r.node[Len(r.node)].limit_line),
            r.pos)

\* Parser._parse_list
ParseList(toks, pos, ordered) ==
    ListOf(ordered,
           ListLoop(toks, pos, IF ordered THEN "OL_MARKER" ELSE "UL_MARKER",
                    toks[pos].indent, <<>>))

\* Parser._parse_quote_block: the loop over the following BLOCKQUOTE tokens
RECURSIVE QuoteLoop(_, _, _)
QuoteLoop(toks, pos, lines) ==
    IF Check(toks, pos, {"BLOCKQUOTE"})
    THEN QuoteLoop(toks, pos + 1, Append(lines, LStripChars(toks[pos].value, {">", " "})))
    ELSE Ok(lines, pos)

\* Parser._parse_quote_block
ParseQuoteBlock(toks, pos) ==
    LET r == QuoteLoop(toks, pos + 1, << LStripChars(toks[pos].value, {">", " "}) >>)
    IN  Ok(QuoteBlock(r.node, toks[pos].line, toks[r.pos].line), r.pos)

\* Parser._parse_admonition: the Admonition built once
\* _parse_blocks_until_indent has returned `body`
AdmonitionOf(toks, pos, body) ==
    LET header_tok == toks[pos]
        fields == WsSplit(header_tok.value, 2)
        kind == IF Len(fields) > 1 THEN Lower(fields[2]) ELSE <<"n", "o", "t", "e">>
        title == IF Len(fields) = 3
                 THEN StripChars(StripChars(fields[3], {" "}), {"\""}) ELSE <<>>
    IN  IF body.st # "ok" THEN body
        ELSE Ok(Admonition(fields[1], kind, title, body.node, header_tok.line,
                           toks[body.pos].line),
                body.pos)

\* Parser._parse_admonition
ParseAdmonition(toks, pos) ==
    IF WsSplit(toks[pos].value, 2) = <<>>
    THEN OtherError("ValueError", "not enough values to unpack", pos + 1)
    ELSE AdmonitionOf(toks, pos,
                      ParseBlocksUntilIndent(toks, pos + 1, toks[pos].indent))

\* whether a TAB_HEADER token at the cursor continues the tab block
TabContinues(toks, pos) == Check(toks, pos, {"TAB_HEADER"})

\* Parser._parse_tab_block: the loop body after _parse_blocks_until_indent has
\* returned `inner`
TabLoopNext(toks, pos, tabs, inner) ==
    IF inner.st # "ok" THEN inner
    ELSE TabLoop(toks, inner.pos,
                 Append(tabs,
                        Tab(SplitLast(SplitFirst(toks[pos].value, "\"")[2], "\"")[1],
                            inner.node, toks[pos].line, toks[inner.pos].line)))

\* Parser._parse_tab_block: the loop over the tab headers
TabLoop(toks, pos, tabs) ==
    IF TabContinues(toks, pos)
    THEN IF Len(SplitFirst(toks[pos].value, "\"")) < 2
         THEN OtherError("IndexError", "list index out of range", pos + 1)
         ELSE TabLoopNext(toks, pos, tabs,
                          ParseBlocksUntilIndent(toks, pos + 1, toks[pos].indent))
    ELSE Ok(tabs, pos)

\* Parser._parse_tab_block: the TabBlock built from the tabs the loop returned
TabBlockOf(r) ==
    IF r.st # "ok" THEN r
    ELSE Ok(TabBlock(r.node, r.node[1].start_line, r.node[Len(r.node)].limit_line),
            r.pos)

\* Parser._parse_tab_block
ParseTabBlock(toks, pos) == TabBlockOf(TabLoop(toks, pos, <<>>))

\* Parser._parse_html_block: the loop over the following HTML_TAG tokens
RECURSIVE HtmlLoop(_, _, _)
HtmlLoop(toks, pos, lines) ==
    IF Check(toks, pos, {"HTML_TAG"})
    THEN HtmlLoop(toks, pos + 1,
                  Append(lines, Spaces(toks[pos].indent) \o toks[pos].value))
    ELSE Ok(lines, pos)

\* Parser._parse_html_block
ParseHtmlBlock(toks, pos) ==
    LET r == HtmlLoop(toks, pos + 1, << Spaces(toks[pos].indent) \o toks[pos].value >>)
    IN  Ok(HTMLBlock(Join(r.node, <<"\n">>), toks[pos].line, toks[r.pos].line), r.pos)

\* language in ("python", "js")
ConditionalLanguages == { <<"p", "y", "t", "h", "o", "n">>, <<"j", "s">> }

\* the exception _parse_conditional_block raises for a bad language or a missing
\* close marker: raise ValueError(msg)
ConditionalError(message, pos) == OtherError("ValueError", message, pos)

\* Parser._parse_conditional_block: the loop body after _parse_block has
\* returned `r`
ConditionalLoopNext(toks, pos, blocks, r) ==
    IF r.st # "ok" THEN r
    ELSE IF r.pos = pos THEN Hang(pos)
    ELSE ConditionalLoop(toks, r.pos, Append(blocks, r.node))

\* Parser._parse_conditional_block: the loop that collects the blocks
ConditionalLoop(toks, pos, blocks) ==
    IF Check(toks, pos, {"EOF"}) THEN Ok(blocks, pos)
    ELSE IF Check(toks, pos, {"CONDITIONAL_BLOCK_CLOSE"}) THEN Ok(blocks, pos)
    ELSE IF Check(toks, pos, {"BLANK"}) THEN ConditionalLoop(toks, pos + 1, blocks)
    ELSE ConditionalLoopNext(toks, pos, blocks, ParseBlock(toks, pos))

\* Parser._parse_conditional_block: the close marker's check and the
\* ConditionalBlock built from the blocks the loop returned in `r`
ConditionalBlockOf(toks, pos, language, r) ==
    IF r.st # "ok" THEN r
    ELSE IF ~Check(toks, r.pos, {"CONDITIONAL_BLOCK_CLOSE"})
    THEN ConditionalError("Missing closing tag ':::'", r.pos)
    ELSE Ok(ConditionalBlock(language, r.node, toks[pos].indent, toks[pos].line,
                             toks[r.pos].line + 1),
            r.pos + 1)

\* Parser._parse_conditional_block: the language check and what follows it
ConditionalBlockIn(toks, pos, language) ==
    IF language \notin ConditionalLanguages
    THEN ConditionalError("Invalid conditional block language", pos + 1)
    ELSE ConditionalBlockOf(toks, pos, language, ConditionalLoop(toks, pos + 1, <<>>))

\* Parser._parse_conditional_block
ParseConditionalBlock(toks, pos) ==
    IF ~StartsWith(toks[pos].value, <<":", ":", ":">>)
    THEN ConditionalError("Invalid conditional block opening tag", pos + 1)
    ELSE ConditionalBlockIn(toks, pos, Strip(DropFirst(toks[pos].value, 3)))

\* Parser._parse_paragraph: the two loops, over TEXT and then over BLANK tokens
RECURSIVE TextLoop(_, _, _)
TextLoop(toks, pos, lines) ==
    IF Check(toks, pos, {"TEXT"}) THEN TextLoop(toks, pos + 1, Append(lines, toks[pos].value))
    ELSE Ok(lines, pos)

RECURSIVE BlankLoop(_, _)
BlankLoop(toks, pos) ==
    IF Check(toks, pos, {"BLANK"}) THEN BlankLoop(toks, pos + 1) ELSE pos

\* Parser._parse_paragraph
ParseParagraph(toks, pos) ==
    LET text == TextLoop(toks, pos, <<>>)
        after == BlankLoop(toks, text.pos)
    IN  Ok(Paragraph(text.node, toks[pos].line, toks[after].line), after)

\* Parser._parse_block
ParseBlock(toks, pos) ==
    CASE Check(toks, pos, {"HEADING"}) -> ParseHeading(toks, pos)
      [] Check(toks, pos, {"FENCE"}) -> ParseCodeBlock(toks, pos)
      [] Check(toks, pos, {"UL_MARKER"}) -> ParseList(toks, pos, FALSE)
      [] Check(toks, pos, {"OL_MARKER"}) -> ParseList(toks, pos, TRUE)
      [] Check(toks, pos, {"BLOCKQUOTE"}) -> ParseQuoteBlock(toks, pos)
      [] Check(toks, pos, {"ADMONITION"}) -> ParseAdmonition(toks, pos)
      [] Check(toks, pos, {"TAB_HEADER"}) -> ParseTabBlock(toks, pos)
      [] Check(toks, pos, {"HTML_TAG"}) -> ParseHtmlBlock(toks, pos)
      [] Check(toks, pos, {"CONDITIONAL_BLOCK_OPEN"}) -> ParseConditionalBlock(toks, pos)
      [] OTHER -> ParseParagraph(toks, pos)

\* the structural check at the head of _parse_blocks_until_indent's loop body:
\* a CONDITIONAL_BLOCK_CLOSE or FRONT_MATTER token inside an indent scope
StructuralError(toks, pos) ==
    IF Check(toks, pos, {"CONDITIONAL_BLOCK_CLOSE"})
    THEN ParseError("Conditional block close ':::' has mismatched indentation", pos,
                    toks[pos].line, toks[pos], "content or properly indented closing tag")
    ELSE ParseError("Unexpected front matter token", pos, toks[pos].line, toks[pos],
                    "content or block end")

\* Parser._parse_blocks_until_indent: the loop body after _parse_block has
\* returned `r`
BlocksUntilIndentLoopNext(toks, pos, min_indent, blocks, r) ==
    IF r.st # "ok" THEN r
    ELSE IF r.pos = pos THEN Hang(pos)
    ELSE BlocksUntilIndentLoop(toks, r.pos, min_indent, Append(blocks, r.node))

\* Parser._parse_blocks_until_indent: the loop
BlocksUntilIndentLoop(toks, pos, min_indent, blocks) ==
    IF ~Check(toks, pos, {"EOF"})
       /\ (toks[pos].indent > min_indent \/ toks[pos].type = "BLANK")
    THEN IF Check(toks, pos, {"CONDITIONAL_BLOCK_CLOSE", "FRONT_MATTER"})
         THEN StructuralError(toks, pos)
         ELSE IF Check(toks, pos, {"BLANK"})
         THEN BlocksUntilIndentLoop(toks, pos + 1, min_indent, blocks)
         ELSE BlocksUntilIndentLoopNext(toks, pos, min_indent, blocks,
                                        ParseBlock(toks, pos))
    ELSE Ok(blocks, pos)

\* Parser.parse: the loop body after _parse_block has returned `r`
RECURSIVE ParseLoop(_, _, _)
ParseLoopNext(toks, pos, blocks, r) ==
    IF r.st # "ok" THEN r
    ELSE IF r.pos = pos THEN Hang(pos)
    ELSE ParseLoop(toks, r.pos, Append(blocks, r.node))

\* Parser.parse: the loop over the top-level blocks
ParseLoop(toks, pos, blocks) ==
    IF Check(toks, pos, {"EOF"}) THEN Ok(Document(blocks, 1, toks[pos].line), pos)
    ELSE IF Check(toks, pos, {"BLANK"}) THEN ParseLoop(toks, pos + 1, blocks)
    ELSE ParseLoopNext(toks, pos, blocks, ParseBlock(toks, pos))

\* Parser.parse: the blocks after the front matter, parsed into `fm`
ParseAfterFrontMatter(toks, fm) ==
    IF fm.st # "ok" THEN fm ELSE ParseLoop(toks, fm.pos, << fm.node >>)

\* Parser.parse
Parse(toks) ==
    IF Check(toks, 1, {"FRONT_MATTER"})
    THEN ParseAfterFrontMatter(toks, ParseFrontMatter(toks, 1))
    ELSE ParseLoop(toks, 1, <<>>)


(***************************************************************************)
(* MintPrinter: the printer's fields, threaded through the visitors.       *)
(* err is the exception a visitor raised ("" while none was): once set,    *)
(* nothing more is executed and print() returns nothing.                   *)
(***************************************************************************)

\* MintPrinter.__init__
MintPrinterInit ==
    [output |-> <<>>, indent_level |-> 0, printed_first_heading |-> FALSE, err |-> ""]

\* MintPrinter._add_line
AddLine(p, line) ==
    [p EXCEPT !.output = Append(@, Spaces(2 * p.indent_level) \o line)]

\* raise NotImplementedError
Raise(p) == [p EXCEPT !.err = "NotImplementedError"]

\* self.indent_level += d
Indent(p, d) == [p EXCEPT !.indent_level = @ + d]

\* str(n) of a positive integer
RECURSIVE IntToStr(_)
IntToStr(n) ==
    LET digit == << "0", "1", "2", "3", "4", "5", "6", "7", "8", "9" >>[(n % 10) + 1]
    IN  IF n < 10 THEN << digit >> ELSE Append(IntToStr(n \div 10), digit)

\* [A-Za-z0-9\-_], the characters of an explicit anchor id
AnchorIdChars == Uppers \cup Lowers \cup Digits \cup {"-", "_"}

\* acorn_pattern matched at index i: the index of the closing brace, 0 if no match
AcornEnd(s, i) ==
    LET h == FirstNotIn(s, i + 1, WS)
        b == FirstNotIn(s, h + 1, WS)
        e == FirstNotIn(s, b, AnchorIdChars)
        c == FirstNotIn(s, e, WS)
    IN  IF /\ i <= Len(s) /\ s[i] = "{"
           /\ h <= Len(s) /\ s[h] = "#"
           /\ e > b
           /\ c <= Len(s) /\ s[c] = "}"
        THEN c ELSE 0

\* group(1) of acorn_pattern matched at index i
AcornId(s, i) ==
    LET h == FirstNotIn(s, i + 1, WS)
        b == FirstNotIn(s, h + 1, WS)
        e == FirstNotIn(s, b, AnchorIdChars)
    IN  SubSeq(s, b, e - 1)

\* re.search(acorn_pattern, s): the index of the leftmost match at or after i, 0 if none
RECURSIVE AcornSearch(_, _)
AcornSearch(s, i) ==
    IF i > Len(s) THEN 0
    ELSE IF AcornEnd(s, i) # 0 THEN i ELSE AcornSearch(s, i + 1)

\* re.sub(acorn_pattern, "", s), from index i on
RECURSIVE AcornRemove(_, _)
AcornRemove(s, i) ==
    IF i > Len(s) THEN <<>>
    ELSE IF AcornEnd(s, i) # 0 THEN AcornRemove(s, AcornEnd(s, i) + 1)
    ELSE << s[i] >> \o AcornRemove(s, i + 1)

\* paren_pattern matched at index i: the index of the closing parenthesis, 0 if no match
ParenEnd(s, i) ==
    LET j == FirstIn(s, i + 1, {")"})
    IN  IF /\ i <= Len(s) /\ s[i] = "("
           /\ j <= Len(s) /\ j >= i + 2
           /\ FirstNotIn(s, j + 1, WS) > Len(s)
        THEN j ELSE 0

\* re.search(paren_pattern, s): the index of the leftmost match at or after i, 0 if none
RECURSIVE ParenSearch(_, _)
ParenSearch(s, i) ==
    IF i > Len(s) THEN 0
    ELSE IF ParenEnd(s, i) # 0 THEN i ELSE ParenSearch(s, i + 1)

\* re.sub(r"[^a-z0-9]+", "-", text), from index i on
RECURSIVE HyphenateFrom(_, _)
HyphenateFrom(s, i) ==
    IF i > Len(s) THEN <<>>
    ELSE IF s[i] \in Lowers \cup Digits THEN << s[i] >> \o HyphenateFrom(s, i + 1)
    ELSE << "-" >> \o HyphenateFrom(s, FirstIn(s, i, Lowers \cup Digits))

\* re.sub(r"-+", "-", text), from index i on
RECURSIVE CollapseFrom(_, _)
CollapseFrom(s, i) ==
    IF i > Len(s) THEN <<>>
    ELSE IF s[i] = "-" THEN << "-" >> \o CollapseFrom(s, FirstNotIn(s, i, {"-"}))
    ELSE << s[i] >> \o CollapseFrom(s, i + 1)

\* _slugify
Slugify(text) == StripChars(CollapseFrom(HyphenateFrom(Lower(text), 1), 1), {"-"})

\* _visit_heading, the extraction: the anchor id (empty when there is none) and
\* the heading text without the anchor syntax
HeadingAnchor(value) ==
    LET a == AcornSearch(value, 1)
        q == ParenSearch(value, 1)
    IN  IF a # 0
        THEN [anchor_id |-> Slugify(AcornId(value, a)),
              heading_text |-> Strip(AcornRemove(value, 1))]
        ELSE IF q # 0
        THEN [anchor_id |-> Slugify(SubSeq(value, q + 1, ParenEnd(value, q) - 1)),
              heading_text |-> Strip(SubSeq(value, 1, q - 1))]
        ELSE [anchor_id |-> <<>>, heading_text |-> value]

\* PromoteHeading with the assignment of printed_first_heading forgotten
PromoteHeadingFlagNotSet(p, heading_text) ==
    AddLine(AddLine(AddLine(p, <<"-", "-", "-">>), <<"t", "i", "t", "l", "e", ":", " ">> \o heading_text), <<"-", "-", "-">>)

\* _visit_heading, the branch taken the first time: the synthesized front matter
PromoteHeading(p, heading_text) ==
    [AddLine(AddLine(AddLine(p, <<"-", "-", "-">>), <<"t", "i", "t", "l", "e", ":", " ">> \o heading_text), <<"-", "-", "-">>)
        EXCEPT !.printed_first_heading = TRUE]

\* _visit_heading: the lines of a heading whose anchor and text are `h`
HeadingLines(p, node, h) ==
    IF p.printed_first_heading
    THEN AddLine(IF h.anchor_id # <<>>
                 THEN AddLine(p, <<"<", "a", " ", "i", "d", "=", "\"">> \o h.anchor_id \o <<"\"", ">", "<", "/", "a", ">">>)
                 ELSE p,
                 Repeat("#", node.level) \o <<" ">> \o h.heading_text)
    ELSE PromoteHeading(p, h.heading_text)

\* _visit_heading
VisitHeading(p, node) == HeadingLines(p, node, HeadingAnchor(node.value))

\* _visit_paragraph
RECURSIVE ParagraphLines(_, _, _)
ParagraphLines(p, value, i) ==
    IF i > Len(value) THEN p
    ELSE ParagraphLines(AddLine(p, Strip(value[i])), value, i + 1)

VisitParagraph(p, node) == ParagraphLines(p, node.value, 1)

\* add every line of `lines` as it is
RECURSIVE AddLines(_, _, _)
AddLines(p, lines, i) ==
    IF i > Len(lines) THEN p ELSE AddLines(AddLine(p, lines[i]), lines, i + 1)

\* _visit_codeblock
VisitCodeBlock(p, node) ==
    LET fence == << Backtick, Backtick, Backtick >>
        fence_line == IF node.language # <<>>
                      THEN IF node.meta # <<>>
                           THEN fence \o node.language \o <<" ">> \o node.meta
                           ELSE fence \o node.language
                      ELSE fence
        opened == AddLine(p, fence_line)
        body == IF node.content # <<>>
                THEN AddLines(opened, SplitAll(node.content, "\n"), 1)
                ELSE opened
    IN  AddLine(body, fence)

\* _visit_quoteblock
RECURSIVE QuoteLines(_, _, _)
QuoteLines(p, lines, i) ==
    IF i > Len(lines) THEN p
    ELSE QuoteLines(AddLine(p, <<">", " ">> \o lines[i]), lines, i + 1)

VisitQuoteBlock(p, node) == QuoteLines(p, node.lines, 1)

\* _visit_htmlblock
RECURSIVE HtmlLines(_, _, _)
HtmlLines(p, lines, i) ==
    IF i > Len(lines) THEN p
    ELSE IF Strip(lines[i]) # <<>> \/ i = 1
    THEN HtmlLines(AddLine(p, lines[i]), lines, i + 1)
    ELSE HtmlLines(AddLine(p, <<>>), lines, i + 1)

VisitHtmlBlock(p, node) == HtmlLines(p, SplitAll(node.content, "\n"), 1)


RECURSIVE Visit(_, _)

\* what follows a visit that returned the printer `v`: nothing if it raised, else
\* self.indent_level -= 1
Dedent(v) == IF v.err # "" THEN v ELSE Indent(v, -1)

\* what follows a visit that returned the printer `v`: nothing if it raised, else
\* self._add_line(line)
ThenLine(v, line) == IF v.err # "" THEN v ELSE AddLine(v, line)

\* the loop of _visit_tabblock, _visit_admonition and _visit_conditionalblock over
\* their blocks: a blank line before every block but the first
RECURSIVE VisitBlocks(_, _, _)
VisitBlocks(p, blocks, i) ==
    IF i > Len(blocks) \/ p.err # "" THEN p
    ELSE VisitBlocks(Visit(IF i > 1 THEN AddLine(p, <<>>) ELSE p, blocks[i]), blocks, i + 1)

\* _visit_document: the loop body's `if i > 0: self._add_line("")`, run after the
\* visit of block i (i counted from 1 here) has returned the printer `v`
DocumentSeparator(v, i) == IF i > 1 THEN ThenLine(v, <<>>) ELSE v

\* _visit_document
RECURSIVE DocumentLoop(_, _, _)
DocumentLoop(p, blocks, i) ==
    IF i > Len(blocks) \/ p.err # "" THEN p
    ELSE DocumentLoop(DocumentSeparator(Visit(p, blocks[i]), i), blocks, i + 1)

VisitDocument(p, node) == DocumentLoop(p, node.blocks, 1)

\* _visit_list_item: the first block of an item
VisitFirstBlock(p, block, prefix) ==
    IF block.type = "Paragraph"
    THEN AddLine(p, prefix \o Join(block.value, <<" ">>))
    ELSE Visit(AddLine(p, prefix), block)

\* _visit_list_item: a block of an item after the first
VisitLaterBlock(p, block) == Dedent(Visit(Indent(p, 1), block))

\* _visit_list_item
RECURSIVE ListItemLoop(_, _, _, _)
ListItemLoop(p, blocks, prefix, i) ==
    IF i > Len(blocks) \/ p.err # "" THEN p
    ELSE IF i = 1
    THEN ListItemLoop(VisitFirstBlock(p, blocks[i], prefix), blocks, prefix, i + 1)
    ELSE ListItemLoop(VisitLaterBlock(p, blocks[i]), blocks, prefix, i + 1)

VisitListItem(p, item, prefix) == ListItemLoop(p, item.blocks, prefix, 1)

\* _visit_unorderedlist
RECURSIVE UnorderedLoop(_, _, _)
UnorderedLoop(p, items, i) ==
    IF i > Len(items) \/ p.err # "" THEN p
    ELSE UnorderedLoop(VisitListItem(p, items[i], <<"*", " ">>), items, i + 1)

VisitUnorderedList(p, node) == UnorderedLoop(p, node.items, 1)

\* _visit_orderedlist: f"{i}. "
OrderedPrefix(i) == IntToStr(i) \o <<".", " ">>

\* _visit_orderedlist
RECURSIVE OrderedLoop(_, _, _)
OrderedLoop(p, items, i) ==
    IF i > Len(items) \/ p.err # "" THEN p
    ELSE OrderedLoop(VisitListItem(p, items[i], OrderedPrefix(i)), items, i + 1)

VisitOrderedList(p, node) == OrderedLoop(p, node.items, 1)

\* _visit_tabblock: the loop over the tabs
RECURSIVE TabsLoop(_, _, _)
TabsLoop(p, tabs, i) ==
    IF i > Len(tabs) \/ p.err # "" THEN p
    ELSE TabsLoop(
             ThenLine(
                 Dedent(VisitBlocks(
                            Indent(AddLine(p, <<"<", "T", "a", "b", " ", "t", "i", "t", "l", "e", "=", "\"">>
                                                  \o StripChars(tabs[i].title, {Backtick})
                                                  \o <<"\"", ">">>), 1),
                            tabs[i].blocks, 1)),
                 <<"<", "/", "T", "a", "b", ">">>),
             tabs, i + 1)

\* _visit_tabblock
VisitTabBlock(p, node) ==
    ThenLine(Dedent(TabsLoop(Indent(AddLine(p, <<"<", "T", "a", "b", "s", ">">>), 1), node.tabs, 1)), <<"<", "/", "T", "a", "b", "s", ">">>)

\* kind_to_callout
KindToCallout ==
    { << <<"n", "o", "t", "e">>, <<"N", "o", "t", "e">> >>, << <<"w", "a", "r", "n", "i", "n", "g">>, <<"W", "a", "r", "n", "i", "n", "g">> >>, << <<"i", "n", "f", "o">>, <<"I", "n", "f", "o">> >>,
      << <<"t", "i", "p">>, <<"T", "i", "p">> >>, << <<"d", "a", "n", "g", "e", "r">>, <<"D", "a", "n", "g", "e", "r">> >>, << <<"i", "m", "p", "o", "r", "t", "a", "n", "t">>, <<"W", "a", "r", "n", "i", "n", "g">> >> }

\* kind in kind_to_callout
KindKnown(kind) == \E e \in KindToCallout : e[1] = kind

\* kind_to_callout[kind]
Callout(kind) == (CHOOSE e \in KindToCallout : e[1] = kind)[2]

\* _visit_admonition: the branch of tag "???", an Accordion
VisitAccordion(p, node) ==
    ThenLine(
        Dedent(VisitBlocks(
                   Indent(IF node.title # <<>>
                          THEN AddLine(p, <<"<", "A", "c", "c", "o", "r", "d", "i", "o", "n", " ", "t", "i", "t", "l", "e", "=", "\"">> \o node.title \o <<"\"", ">">>)
                          ELSE AddLine(p, <<"<", "A", "c", "c", "o", "r", "d", "i", "o", "n", ">">>), 1),
                   node.blocks, 1)),
        <<"<", "/", "A", "c", "c", "o", "r", "d", "i", "o", "n", ">">>)

\* VisitCallout without the check of the kind: an unknown kind is passed through
\* as the callout's name
VisitCalloutUnchecked(p, node) ==
    LET kind == Lower(node.kind)
        callout == IF KindKnown(kind) THEN Callout(kind) ELSE kind
        opened == Indent(AddLine(p, <<"<">> \o callout \o <<">">>), 1)
        titled == IF node.title # <<>>
                  THEN AddLine(opened, <<"*", "*">> \o node.title \o <<"*", "*">>)
                  ELSE opened
    IN  ThenLine(Dedent(VisitBlocks(titled, node.blocks, 1)),
                 <<"<", "/">> \o callout \o <<">">>)

\* _visit_admonition: the branch of tag "!!!", a callout
VisitCallout(p, node) ==
    LET kind == Lower(node.kind)
        callout == Callout(kind)
        opened == Indent(AddLine(p, <<"<">> \o callout \o <<">">>), 1)
        titled == IF node.title # <<>>
                  THEN AddLine(opened, <<"*", "*">> \o node.title \o <<"*", "*">>)
                  ELSE opened
    IN  IF ~KindKnown(kind) THEN Raise(p)
        ELSE ThenLine(Dedent(VisitBlocks(titled, node.blocks, 1)),
                      <<"<", "/">> \o callout \o <<">">>)

\* _visit_admonition
VisitAdmonition(p, node) ==
    IF node.tag = <<"?", "?", "?">> THEN VisitAccordion(p, node)
    ELSE IF node.tag = <<"!", "!", "!">> THEN VisitCallout(p, node)
    ELSE Raise(p)

\* _visit_conditionalblock printing the blocks one indent level deeper than the
\* markers
VisitConditionalBlockIndented(p, node) ==
    ThenLine(Dedent(VisitBlocks(Indent(AddLine(p, <<":", ":", ":">> \o node.language), 1),
                                node.blocks, 1)),
             <<":", ":", ":">>)

\* _visit_conditionalblock
VisitConditionalBlock(p, node) ==
    ThenLine(VisitBlocks(AddLine(p, <<":", ":", ":">> \o node.language), node.blocks, 1), <<":", ":", ":">>)

\* MintPrinter._visit: the dispatch on the node's class name
Visit(p, node) ==
    CASE node.type = "Document" -> VisitDocument(p, node)
      [] node.type = "Heading" -> VisitHeading(p, node)
      [] node.type = "Paragraph" -> VisitParagraph(p, node)
      [] node.type = "CodeBlock" -> VisitCodeBlock(p, node)
      [] node.type = "UnorderedList" -> VisitUnorderedList(p, node)
      [] node.type = "OrderedList" -> VisitOrderedList(p, node)
      [] node.type = "QuoteBlock" -> VisitQuoteBlock(p, node)
      [] node.type = "TabBlock" -> VisitTabBlock(p, node)
      [] node.type = "Admonition" -> VisitAdmonition(p, node)
      [] node.type = "FrontMatter" -> p
      [] node.type = "HTMLBlock" -> VisitHtmlBlock(p, node)
      [] node.type = "ConditionalBlock" -> VisitConditionalBlock(p, node)
      [] node.type \in {"Tab", "ListItem"} -> Raise(p)
      [] OTHER -> AddLine(p, <<"<", "!", "-", "-", " ", "U", "n", "h", "a", "n", "d", "l", "e", "d", " ", "n", "o", "d", "e", " ", "-", "-", ">">>)

\* MintPrinter.print: the fields it assigns before the visit (err, the exception
\* of an earlier call, is no field of the printer: a new call starts without one)
PrintReset(p) == [p EXCEPT !.output = <<>>, !.indent_level = 0, !.err = ""]

\* MintPrinter.print: the printer after the call (err set when it raised)
PrintVisit(p, node) == Visit(PrintReset(p), node)

\* MintPrinter.print: the string it returns, "\n".join(self.output).rstrip() + "\n"
PrintReturn(p) == RStrip(Join(p.output, <<"\n">>)) \o <<"\n">>


(***************************************************************************)
(* The conversion as a state machine: a token sequence (the lexer's        *)
(* output), Parser.parse on it, and MintPrinter.print calls on the         *)
(* Document it returned, all on one MintPrinter.                           *)
(***************************************************************************)

VARIABLES
    tokens,    \* the lexer's output: the tokens of the document, EOF last
    phase,     \* "start" before Parser.parse ran, "parsed" after
    outcome,   \* what Parser.parse returned or raised
    printer,   \* the MintPrinter's fields
    returned   \* what each MintPrinter.print call returned or raised, in order

vars == << tokens, phase, outcome, printer, returned >>

\* the longest token sequence (EOF not counted) of the general specification
MaxLen == 3

\* the number of print calls made on the one MintPrinter
MaxPrints == 2

\* a token before the lexer numbered its line
T(type, value, indent) == [type |-> type, value |-> value, indent |-> indent]

\* the lexer's output for a document of Len(ts) lines: one token per line,
\* lines numbered from 1, then EOF on the line after the last
Lex(ts) ==
    [i \in 1..(Len(ts) + 1) |->
        IF i <= Len(ts) THEN Tok(ts[i].type, ts[i].value, i, ts[i].indent)
        ELSE Tok("EOF", <<>>, i, 0)]

\* every lexer output of at most n lines over the tokens of `alphabet`
TokenSeqs(alphabet, n) ==
    { Lex(ts) : ts \in UNION { [1..k -> alphabet] : k \in 0..n } }

\* the tokens of the general specification: every token type, at two indents
\* where the indent decides the parse
Alphabet ==
    { T("FRONT_MATTER", <<"-", "-", "-">>, 0), T("FRONT_MATTER", <<"-", "-", "-">>, 2),
      T("BLANK", <<>>, 0),
      T("HEADING", <<"#", " ", "A", " ", "(", "b", ")">>, 0),
      T("FENCE", <<Backtick, Backtick, Backtick, "p", "y">>, 0),
      T("UL_MARKER", <<"-", " ", "a">>, 0),
      T("OL_MARKER", <<"7", ".">>, 0),
      T("BLOCKQUOTE", <<">", " ", "q">>, 0),
      T("ADMONITION", <<"!", "!", "!", " ", "n", "o", "t", "e", " ", "\"", "T", "\"">>, 0),
      T("TAB_HEADER", <<"=", "=", "=", " ", "\"", "T", "\"">>, 0),
      T("HTML_TAG", <<"<", "b", "r", ">">>, 2),
      T("CONDITIONAL_BLOCK_OPEN", <<":", ":", ":", "p", "y", "t", "h", "o", "n">>, 0),
      T("CONDITIONAL_BLOCK_OPEN", <<":", ":", ":", "r", "u", "b", "y">>, 0),
      T("CONDITIONAL_BLOCK_CLOSE", <<":", ":", ":">>, 0),
      T("CONDITIONAL_BLOCK_CLOSE", <<":", ":", ":">>, 2),
      T("TEXT", <<"t">>, 0), T("TEXT", <<"t">>, 2) }

NotParsed == [st |-> "none"]

InitWith(seqs) ==
    /\ tokens \in seqs
    /\ phase = "start"
    /\ outcome = NotParsed
    /\ printer = MintPrinterInit
    /\ returned = <<>>

Init == InitWith(TokenSeqs(Alphabet, MaxLen))

\* doc = parser.parse()
DoParse ==
    /\ phase = "start"
    /\ phase' = "parsed"
    /\ outcome' = Parse(tokens)
    /\ UNCHANGED << tokens, printer, returned >>

\* what a print call that ended with the printer `v` gave its caller: the string
\* returned, or the exception raised
PrintOutcome(v) ==
    IF v.err = "" THEN [st |-> "ok", text |-> PrintReturn(v)]
    ELSE [st |-> v.err, text |-> <<>>]

\* printer.print(doc)
DoPrint ==
    /\ phase = "parsed"
    /\ outcome.st = "ok"
    /\ Len(returned) < MaxPrints
    /\ printer' = PrintVisit(printer, outcome.node)
    /\ returned' = Append(returned, PrintOutcome(printer'))
    /\ UNCHANGED << tokens, phase, outcome >>

Next == DoParse \/ DoPrint

Spec == Init /\ [][Next]_vars


(***************************************************************************)
(* Claims                                                                  *)
(***************************************************************************)

\* Parser.parse has run on the tokens
Parsed == phase = "parsed"

\* the state right after the first print call on the freshly built MintPrinter
\* (what to_mint does)
FirstPrint == Parsed /\ Len(returned) = 1

\* C1: Parser.parse either returns one Document or fails with the structured
\* ParseError carrying the offending line, the token encountered and what was
\* expected; a parse that ends never ends with any other kind of error.
C1_DocumentOrParseError ==
    (Parsed /\ outcome.st # "hang") =>
        \/ outcome.st = "ok" /\ outcome.node.type = "Document"
        \/ /\ outcome.st = "ParseError"
           /\ outcome.line >= 1
           /\ outcome.tok # NoTok
           /\ outcome.expected # ""

\* C2: two successive print calls of one MintPrinter on the same Document return
\* the same string.
C2_SecondPrintSameAsFirst ==
    (Parsed /\ Len(returned) >= 2) => returned[2] = returned[1]


\* the blocks a container node holds, in the order the printer visits them
ChildrenOf(node) ==
    CASE node.type \in {"Document", "ListItem", "Tab", "Admonition", "ConditionalBlock"}
            -> node.blocks
      [] node.type \in {"UnorderedList", "OrderedList"} -> node.items
      [] node.type = "TabBlock" -> node.tabs
      [] OTHER -> <<>>

\* the nodes of the tree under `node`, itself first, in document order
RECURSIVE NodesOf(_)
RECURSIVE NodesOfAll(_, _)
NodesOf(node) == << node >> \o NodesOfAll(ChildrenOf(node), 1)
NodesOfAll(nodes, i) ==
    IF i > Len(nodes) THEN <<>> ELSE NodesOf(nodes[i]) \o NodesOfAll(nodes, i + 1)

IsHeadingNode(n) == n.type = "Heading"

\* the Headings of a Document, in document order
HeadingsOf(doc) == SelectSeq(NodesOf(doc), IsHeadingNode)

\* an output line without its indentation
Unindented(line) == LStripChars(line, {" "})

IsTitleLine(line) == StartsWith(Unindented(line), <<"t", "i", "t", "l", "e", ":", " ">>)
IsHashLine(line) == StartsWith(Unindented(line), <<"#">>)
IsAnchorLine(line) == StartsWith(Unindented(line), <<"<", "a", " ", "i", "d", "=">>)

\* the heading carries an anchor: its text holds anchor syntax with a usable id
CarriesAnchor(h) == HeadingAnchor(h.value).anchor_id # <<>>

\* the lines a Heading gives when it is not the first
ExpectedAnchorLine(h) == <<"<", "a", " ", "i", "d", "=", "\"">> \o HeadingAnchor(h.value).anchor_id \o <<"\"", ">", "<", "/", "a", ">">>
ExpectedHashLine(h) ==
    Repeat("#", h.level) \o <<" ">> \o HeadingAnchor(h.value).heading_text
ExpectedTitleLine(h) == <<"t", "i", "t", "l", "e", ":", " ">> \o HeadingAnchor(h.value).heading_text

\* walk the output from line i with hs[k] the next Heading to be emitted: the
\* first Heading is a front-matter block, each later one a heading line, with an
\* anchor line right before it exactly when it carries an anchor, and no other
\* title, anchor or heading line occurs
RECURSIVE HeadingLinesMatch(_, _, _, _)
HeadingLinesMatch(out, i, hs, k) ==
    IF i > Len(out) THEN k = Len(hs) + 1
    ELSE IF IsTitleLine(out[i])
    THEN /\ k = 1 /\ Len(hs) >= 1
         /\ Unindented(out[i]) = ExpectedTitleLine(hs[1])
         /\ i > 1 /\ Unindented(out[i - 1]) = <<"-", "-", "-">>
         /\ i < Len(out) /\ Unindented(out[i + 1]) = <<"-", "-", "-">>
         /\ HeadingLinesMatch(out, i + 1, hs, 2)
    ELSE IF IsAnchorLine(out[i])
    THEN /\ 1 < k /\ k <= Len(hs)
         /\ CarriesAnchor(hs[k])
         /\ Unindented(out[i]) = ExpectedAnchorLine(hs[k])
         /\ i < Len(out) /\ IsHashLine(out[i + 1])
         /\ HeadingLinesMatch(out, i + 1, hs, k)
    ELSE IF IsHashLine(out[i])
    THEN /\ 1 < k /\ k <= Len(hs)
         /\ Unindented(out[i]) = ExpectedHashLine(hs[k])
         /\ CarriesAnchor(hs[k]) <=> (i > 1 /\ IsAnchorLine(out[i - 1]))
         /\ HeadingLinesMatch(out, i + 1, hs, k + 1)
    ELSE HeadingLinesMatch(out, i + 1, hs, k)

\* the tokens of the heading specification: headings of three levels, plain,
\* with an explicit anchor, with a parenthesized anchor and with an anchor whose
\* id slugifies to nothing, at top level and inside a list item or an admonition
HeadingAlphabet ==
    { T("HEADING", <<"#", " ", "A">>, 0),
      T("HEADING", <<"#", "#", " ", "B", " ", "{", "#", "x", "-", "Y", "}">>, 2),
      T("HEADING", <<"#", "#", "#", " ", "C", " ", "(", "d", " ", "e", ")">>, 0),
      T("HEADING", <<"#", "#", " ", "E", " ", "{", "#", "_", "}">>, 0),
      T("UL_MARKER", <<"-">>, 0),
      T("ADMONITION", <<"!", "!", "!", " ", "t", "i", "p">>, 0),
      T("TEXT", <<"t">>, 2),
      T("BLANK", <<>>, 0) }

\* the longest token sequence of the heading specification
MaxLenHeading == 4

InitHeading == InitWith(TokenSeqs(HeadingAlphabet, MaxLenHeading))

SpecHeading == InitHeading /\ [][Next]_vars

RECURSIVE BlankSeparated(_, _, _, _)
BlankSeparated(p, blocks, i, acc) ==
    IF i > Len(blocks) THEN acc
    ELSE LET v == Visit([p EXCEPT !.output = <<>>], blocks[i])
         IN  BlankSeparated(v, blocks, i + 1,
                            IF v.output = <<>> THEN acc
                            ELSE IF acc = <<>> THEN v.output
                            ELSE acc \o << <<>> >> \o v.output)

\* C4: in the printed output of a Document every two consecutive top-level
\* blocks that produce output are separated by a blank line (so a first heading
\* followed by a paragraph gives the front matter, a blank line, the paragraph).
C4_TopLevelBlocksBlankSeparated ==
    (FirstPrint /\ returned[1].st = "ok") =>
        returned[1].text =
            RStrip(Join(BlankSeparated(MintPrinterInit, outcome.node.blocks, 1, <<>>),
                        <<"\n">>)) \o <<"\n">>


\* the index of the first token of a type in `kinds`; Len(toks) + 1 if none
RECURSIVE FirstOfType(_, _, _)
FirstOfType(toks, i, kinds) ==
    IF i > Len(toks) THEN Len(toks) + 1
    ELSE IF toks[i].type \in kinds THEN i ELSE FirstOfType(toks, i + 1, kinds)

\* C6: a FRONT_MATTER token reached at a block boundary anywhere but as the very
\* first token (at top level, inside a conditional block or inside an
\* indent-scoped body) makes the parse fail with a ParseError for that token and
\* its line. The token at m is the first FRONT_MATTER token, the document does
\* not start with front matter, no code block before m swallows it, and the
\* parser did not fail on an earlier token (it stopped, if at all, with the
\* cursor on m in a block loop).
C6_StrayFrontMatterIsParseError ==
    LET m == FirstOfType(tokens, 1, {"FRONT_MATTER"})
    IN  ( /\ Parsed
          /\ 1 < m /\ m <= Len(tokens)
          /\ FirstOfType(tokens, 1, {"FENCE"}) > m
          /\ \/ outcome.st = "ok"
             \/ outcome.pos > m
             \/ outcome.pos = m /\ outcome.st \in {"ParseError", "hang"} )
        => /\ outcome.st = "ParseError"
           /\ outcome.line = tokens[m].line
           /\ outcome.tok = tokens[m]


\* the tokens of the admonition specification: both opening tags, with
\* recognized and unrecognized kinds, with and without a title, at top level and
\* nested in another admonition's body
AdmonitionAlphabet ==
    { T("ADMONITION", <<"!", "!", "!", " ", "n", "o", "t", "e", " ", "\"", "T", "\"">>, 0),
      T("ADMONITION", <<"!", "!", "!", " ", "b", "o", "g", "u", "s">>, 0),
      T("ADMONITION", <<"?", "?", "?", " ", "b", "o", "g", "u", "s", " ", "\"", "T", "\"">>, 0),
      T("ADMONITION", <<"?", "?", "?">>, 0),
      T("ADMONITION", <<"!", "!", "!", " ", "T", "i", "p">>, 2),
      T("ADMONITION", <<"!", "!", "!", " ", "b", "o", "g", "u", "s">>, 2),
      T("TEXT", <<"t">>, 2) }

\* the longest token sequence of the admonition specification
MaxLenAdmonition == 4

InitAdmonition == InitWith(TokenSeqs(AdmonitionAlphabet, MaxLenAdmonition))

SpecAdmonition == InitAdmonition /\ [][Next]_vars

\* an Admonition whose kind is not one of the recognized kinds
UnrecognizedKind(n) == n.type = "Admonition" /\ ~KindKnown(Lower(n.kind))

\* the Document holds an Admonition of opening tag `tag` with an unrecognized kind
HoldsUnrecognized(doc, tags) ==
    LET ns == NodesOf(doc)
    IN  \E i \in 1..Len(ns) : UnrecognizedKind(ns[i]) /\ ns[i].tag \in tags

\* C5 as stated: printing an Admonition whose kind is not recognized fails,
\* whichever opening tag ('!!!' or '???') it carries.
C5_UnrecognizedKindFails ==
    (FirstPrint /\ HoldsUnrecognized(outcome.node, {<<"!", "!", "!">>, <<"?", "?", "?">>})) =>
        returned[1].st # "ok"

\* C5 as amended: printing an Admonition of opening tag '!!!' whose kind is not
\* recognized fails with an error and returns no output; the kind of a '???'
\* admonition is not consulted, so a Document without such a '!!!' admonition
\* prints.
C5_UnrecognizedCalloutKindFails ==
    FirstPrint =>
        IF HoldsUnrecognized(outcome.node, {<<"!", "!", "!">>})
        THEN returned[1].st = "NotImplementedError" /\ returned[1].text = <<>>
        ELSE returned[1].st = "ok"

\* C5 witness: a '!!!' admonition of unrecognized kind nested in a '???'
\* admonition; the print raised after it had produced the Accordion's first line
C5_Witness ==
    /\ FirstPrint
    /\ Len(outcome.node.blocks) = 1
    /\ outcome.node.blocks[1].type = "Admonition"
    /\ outcome.node.blocks[1].tag = <<"?", "?", "?">>
    /\ HoldsUnrecognized(outcome.node.blocks[1], {<<"!", "!", "!">>})
    /\ returned[1].st = "NotImplementedError"
    /\ printer.output # <<>>


\* the tokens of the fence specification: fences at two indents, body text, and
\* the containers a code block can be nested in (list item, conditional block),
\* plus the front-matter delimiter, whose section swallows fences
FenceAlphabet ==
    { T("FENCE", <<Backtick, Backtick, Backtick, "p", "y", " ", "m">>, 0),
      T("FENCE", <<Backtick, Backtick, Backtick>>, 2),
      T("TEXT", <<"x">>, 2),
      T("UL_MARKER", <<"-", " ", "a">>, 0),
      T("CONDITIONAL_BLOCK_OPEN", <<":", ":", ":", "p", "y", "t", "h", "o", "n">>, 0),
      T("CONDITIONAL_BLOCK_CLOSE", <<":", ":", ":">>, 0),
      T("FRONT_MATTER", <<"-", "-", "-">>, 0),
      T("BLANK", <<>>, 0) }

\* the longest token sequence of the fence specification
MaxLenFence == 4

InitFence == InitWith(TokenSeqs(FenceAlphabet, MaxLenFence))

SpecFence == InitFence /\ [][Next]_vars

\* the index of the token that closes the document's leading front matter
\* (past the end if it is never closed), 0 if the document has none
FrontMatterEnd(toks) ==
    IF toks[1].type = "FRONT_MATTER" THEN FirstOfType(toks, 2, {"FRONT_MATTER"}) ELSE 0

\* the FENCE tokens outside the leading front matter: they open and close code
\* blocks in turn, every token between an opening and a closing one being body
FenceIndexes(toks) ==
    { i \in 1..Len(toks) : toks[i].type = "FENCE" /\ i > FrontMatterEnd(toks) }

LastFence(toks) == CHOOSE i \in FenceIndexes(toks) : \A j \in FenceIndexes(toks) : j <= i

\* C7: if a FENCE token opens a code block and no later FENCE token occurs before
\* EOF (the fences outside the front matter are odd in number, so the last one
\* opens), no Document is returned, and once the parser has consumed that
\* fence it fails with a ParseError whose line and token are the opening fence's.
C7_UnclosedFenceFails ==
    (Parsed /\ Cardinality(FenceIndexes(tokens)) % 2 = 1) =>
        /\ outcome.st # "ok"
        /\ outcome.pos > LastFence(tokens) =>
              /\ outcome.st = "ParseError"
              /\ outcome.message = "Unclosed code block"
              /\ outcome.line = tokens[LastFence(tokens)].line
              /\ outcome.tok = tokens[LastFence(tokens)]

\* C7 witness: a fence opened inside a list item, followed by a body line, never
\* closed: the error names the fence's line, not the line of EOF
C7_Witness ==
    /\ Parsed
    /\ Cardinality(FenceIndexes(tokens)) = 1
    /\ tokens[1].type = "UL_MARKER"
    /\ tokens[LastFence(tokens)].indent = 2
    /\ LastFence(tokens) < Len(tokens) - 1
    /\ outcome.st = "ParseError"
    /\ outcome.message = "Unclosed code block"
    /\ outcome.line = tokens[LastFence(tokens)].line
    /\ outcome.line < tokens[Len(tokens)].line - 1


\* the tokens of the conditional-block specification: opening markers with the
\* two allowed languages and with another one, close markers at two indents, and
\* content for the inside of a block
ConditionalAlphabet ==
    { T("CONDITIONAL_BLOCK_OPEN", <<":", ":", ":", "p", "y", "t", "h", "o", "n">>, 0),
      T("CONDITIONAL_BLOCK_OPEN", <<":", ":", ":", " ", "j", "s">>, 2),
      T("CONDITIONAL_BLOCK_OPEN", <<":", ":", ":", "r", "u", "b", "y">>, 0),
      T("CONDITIONAL_BLOCK_CLOSE", <<":", ":", ":">>, 0),
      T("CONDITIONAL_BLOCK_CLOSE", <<":", ":", ":">>, 2),
      T("TEXT", <<"t">>, 0),
      T("HEADING", <<"#", "#", " ", "B">>, 2),
      T("UL_MARKER", <<"-", " ", "a">>, 0),
      T("BLANK", <<>>, 0) }

\* the longest token sequence of the conditional-block specification
MaxLenConditional == 4

InitConditional == InitWith(TokenSeqs(ConditionalAlphabet, MaxLenConditional))

SpecConditional == InitConditional /\ [][Next]_vars

\* the two languages a conditional block may be opened with
AllowedLanguages == { <<"p", "y", "t", "h", "o", "n">>, <<"j", "s">> }

\* the language an opening marker names: what follows its three colons
OpenLanguage(tok) == Strip(SubSeq(tok.value, 4, Len(tok.value)))

IsBadOpen(tok) ==
    tok.type = "CONDITIONAL_BLOCK_OPEN" /\ OpenLanguage(tok) \notin AllowedLanguages

\* the content of a document that is one conditional block: the tokens between
\* its first token and its last one before EOF, as a document of their own
\* (their lines kept, EOF on the line of the close marker)
InnerTokens(toks) ==
    SubSeq(toks, 2, Len(toks) - 2)
        \o << Tok("EOF", <<>>, toks[Len(toks) - 1].line, 0) >>

\* the document is one conditional block opened with an allowed language and
\* closed by a close marker: the close marker is the last token, no deeper than
\* any token of the content, and the content parses on its own
ClosedConditional(toks) ==
    /\ Len(toks) >= 3
    /\ toks[1].type = "CONDITIONAL_BLOCK_OPEN"
    /\ OpenLanguage(toks[1]) \in AllowedLanguages
    /\ toks[Len(toks) - 1].type = "CONDITIONAL_BLOCK_CLOSE"
    /\ \A i \in 2..(Len(toks) - 2) :
          toks[i].type # "BLANK" => toks[i].indent >= toks[Len(toks) - 1].indent
    /\ Parse(InnerTokens(toks)).st = "ok"

\* the lines the blocks produce outside a conditional block, one block after the
\* other on the same printer, a blank line between two blocks
RECURSIVE InnerLines(_, _, _)
InnerLines(p, blocks, i) ==
    IF i > Len(blocks) THEN <<>>
    ELSE LET v == Visit([p EXCEPT !.output = <<>>], blocks[i])
         IN  (IF i > 1 THEN << <<>> >> ELSE <<>>) \o v.output \o InnerLines(v, blocks, i + 1)

C8_WitnessBadLanguage ==
    /\ Parsed
    /\ \E i \in 1..Len(tokens) : IsBadOpen(tokens[i]) /\ outcome.pos = i + 1 /\ i > 1
    /\ outcome.st = "ValueError"


\* the tokens of the list specification: ordered markers with and without
\* trailing text, an unordered marker, a nested ordered marker, and content for
\* the items (text, a fence, a heading), indented under the markers
ListAlphabet ==
    { T("OL_MARKER", <<"1", ".">>, 0),
      T("OL_MARKER", <<"7", ".", " ", "b">>, 0),
      T("UL_MARKER", <<"-", " ", "a">>, 0),
      T("OL_MARKER", <<"3", ".", " ", "d">>, 2),
      T("TEXT", <<"c">>, 2),
      T("FENCE", <<Backtick, Backtick, Backtick>>, 2),
      T("HEADING", <<"#", "#", " ", "B">>, 2),
      T("BLANK", <<>>, 0) }

\* the longest token sequence of the list specification
MaxLenList == 4

InitList == InitWith(TokenSeqs(ListAlphabet, MaxLenList))

SpecList == InitList /\ [][Next]_vars

\* the parse returned a Document that is one list of one of the given classes
SingleList(classes) ==
    /\ Parsed
    /\ outcome.st = "ok"
    /\ Len(outcome.node.blocks) = 1
    /\ outcome.node.blocks[1].type \in classes

\* the list holds no other list at any depth
NoListInside(list) ==
    \A i \in 2..Len(NodesOf(list)) :
        NodesOf(list)[i].type \notin {"OrderedList", "UnorderedList"}

\* no code block of the list holds a digit, so that no line of a code body can
\* be taken for a marker line
NoDigitInCode(list) ==
    \A i \in 1..Len(NodesOf(list)) :
        NodesOf(list)[i].type = "CodeBlock" =>
            \A j \in 1..Len(NodesOf(list)[i].content) :
                NodesOf(list)[i].content[j] \notin Digits

\* a line that starts, after its indent, with a number and a dot
IsMarkerLine(line) ==
    LET s == LStripChars(line, {" "})
    IN  \E k \in 2..Len(s) : s[k] = "." /\ \A j \in 1..(k - 1) : s[j] \in Digits

\* C9: when an ordered list with n items is printed, the output contains exactly
\* n marker lines and the k-th is the marker 'k.', whatever the source markers'
\* numbers and whatever blocks the items hold (the list holding no other list
\* and no digit in a code body, so that every marker line is its own).
C9_OrderedListMarkers ==
    (FirstPrint /\ SingleList({"OrderedList"}) /\ NoListInside(outcome.node.blocks[1])
        /\ NoDigitInCode(outcome.node.blocks[1]) /\ returned[1].st = "ok") =>
        LET n == Len(outcome.node.blocks[1].items)
            markers == SelectSeq(printer.output, IsMarkerLine)
        IN  /\ Len(markers) = n
            /\ \A k \in 1..n : StartsWith(markers[k], IntToStr(k) \o <<".">>)

\* the marker line of the k-th item of a list
ItemPrefix(list, k) ==
    IF list.type = "OrderedList" THEN IntToStr(k) \o <<".", " ">> ELSE <<"*", " ">>

MarkerLine(list, k) ==
    IF list.items[k].blocks[1].type = "Paragraph"
    THEN ItemPrefix(list, k) \o Join(list.items[k].blocks[1].value, <<" ">>)
    ELSE ItemPrefix(list, k)

\* a line printed at least one indent level deeper than a top-level list's
\* marker line
IsDeeper(line) == Len(line) >= 2 /\ line[1] = " " /\ line[2] = " "

IsMarkerLevel(line) == ~IsDeeper(line)

\* C10: when the items of a list are printed, an item's first block, if it is a
\* Paragraph, is joined with spaces onto the marker line, every other block
\* (the first one included when it is not a Paragraph) is printed one indent
\* level deeper than the marker line, and the indent level is afterwards what it
\* was before: the only lines at the marker's level are the items' marker lines.
C10_ItemBlocksIndented ==
    (FirstPrint /\ SingleList({"OrderedList", "UnorderedList"}) /\ returned[1].st = "ok"
        /\ \A k \in 1..Len(outcome.node.blocks[1].items) :
              Len(outcome.node.blocks[1].items[k].blocks) > 0) =>
        /\ SelectSeq(printer.output, IsMarkerLevel)
              = [k \in 1..Len(outcome.node.blocks[1].items) |->
                    MarkerLine(outcome.node.blocks[1], k)]
        /\ printer.indent_level = 0


\* the tokens of the tab specification: tab headers at three indents, content
\* for the tabs, and a list marker for a tab block nested in a list item
TabAlphabet ==
    { T("TAB_HEADER", <<"=", "=", "=", " ", "\"", "T", "\"">>, 0),
      T("TAB_HEADER", <<"=", "=", "=", " ", "\"", "U", "\"">>, 2),
      T("TAB_HEADER", <<"=", "=", "=", " ", "\"", "V", "\"">>, 4),
      T("TEXT", <<"c">>, 2),
      T("TEXT", <<"d">>, 4),
      T("UL_MARKER", <<"-", " ", "a">>, 0),
      T("BLANK", <<>>, 0) }

\* the longest token sequence of the tab specification
MaxLenTab == 4

InitTab == InitWith(TokenSeqs(TabAlphabet, MaxLenTab))

SpecTab == InitTab /\ [][Next]_vars

\* the token a node starts with: the lexer gives one token per line, so it is
\* the token at the node's start_line
StartToken(node) == tokens[node.start_line]

\* the tabs of the TabBlock all start with a header of the first header's indent
TabsShareIndent(block) ==
    \A k \in 1..Len(block.tabs) :
        StartToken(block.tabs[k]).indent = StartToken(block.tabs[1]).indent

\* C11: every TabBlock of a Document returned by parse consists of tabs whose
\* header tokens all have the indent of the first tab header; a TAB_HEADER token
\* at another indent is never absorbed into the TabBlock.
C11_TabsShareIndent ==
    (Parsed /\ outcome.st = "ok") =>
        \A i \in 1..Len(NodesOf(outcome.node)) :
            NodesOf(outcome.node)[i].type = "TabBlock" =>
                TabsShareIndent(NodesOf(outcome.node)[i])


\* the token that closed a ConditionalBlock: limit_line is the line after it
CloseToken(node) == tokens[node.limit_line - 1]

\* C12: every ConditionalBlock of a Document returned by parse was closed by a
\* CONDITIONAL_BLOCK_CLOSE token whose indent is the indent of its opening token
\* (the node's indent field); a close marker at another indent never closes the
\* block.
C12_CloseIndentMatches ==
    (Parsed /\ outcome.st = "ok") =>
        \A i \in 1..Len(NodesOf(outcome.node)) :
            NodesOf(outcome.node)[i].type = "ConditionalBlock" =>
                /\ CloseToken(NodesOf(outcome.node)[i]).type = "CONDITIONAL_BLOCK_CLOSE"
                /\ CloseToken(NodesOf(outcome.node)[i]).indent
                      = NodesOf(outcome.node)[i].indent


\* C13: the limit_line of every Document returned by parse is the line after its
\* last block (the last block's limit_line), or 1 when the Document has no
\* blocks, trailing blank lines and inputs of blank lines only included.
C13_DocumentLimitLine ==
    (Parsed /\ outcome.st = "ok") =>
        outcome.node.limit_line =
            IF outcome.node.blocks = <<>> THEN 1
            ELSE outcome.node.blocks[Len(outcome.node.blocks)].limit_line


\* the tokens of the line-span specification: blocks that end at their own last
\* line (heading, code block, front matter), blocks that end at the cursor
\* (paragraph, list, admonition, quote), indented content, and blank lines
LineAlphabet ==
    { T("HEADING", <<"#", " ", "A">>, 0),
      T("TEXT", <<"t">>, 0),
      T("TEXT", <<"c">>, 2),
      T("BLANK", <<>>, 0),
      T("UL_MARKER", <<"-", " ", "a">>, 0),
      T("FENCE", <<Backtick, Backtick, Backtick>>, 0),
      T("ADMONITION", <<"!", "!", "!", " ", "n", "o", "t", "e">>, 0),
      T("BLOCKQUOTE", <<">", " ", "q">>, 0),
      T("FRONT_MATTER", <<"-", "-", "-">>, 0) }

\* the longest token sequence of the line-span specification
MaxLenLine == 4

InitLine == InitWith(TokenSeqs(LineAlphabet, MaxLenLine))

SpecLine == InitLine /\ [][Next]_vars

\* line l lies in the span of a top-level block of the Document
Covered(doc, l) ==
    \E i \in 1..Len(doc.blocks) :
        doc.blocks[i].start_line <= l /\ l < doc.blocks[i].limit_line

\* C14: in every Document returned by parse, every node at every depth has
\* start_line <= limit_line, the top-level blocks have non-decreasing start_line
\* values, each block starts no earlier than the previous block's limit_line,
\* and the only input lines no top-level block's span covers are blank lines.
C14_LineSpans ==
    (Parsed /\ outcome.st = "ok") =>
        /\ \A i \in 1..Len(NodesOf(outcome.node)) :
              NodesOf(outcome.node)[i].start_line <= NodesOf(outcome.node)[i].limit_line
        /\ \A i \in 1..(Len(outcome.node.blocks) - 1) :
              /\ outcome.node.blocks[i].start_line <= outcome.node.blocks[i + 1].start_line
              /\ outcome.node.blocks[i].limit_line <= outcome.node.blocks[i + 1].start_line
        /\ \A l \in 1..(Len(tokens) - 1) :
              ~Covered(outcome.node, l) => tokens[l].type = "BLANK"

\* C14 witness: a Document of a heading, a skipped blank line that no block
\* covers, and a list whose item holds a nested block
C14_Witness ==
    /\ Parsed
    /\ outcome.st = "ok"
    /\ Len(outcome.node.blocks) = 2
    /\ outcome.node.blocks[1].type = "Heading"
    /\ outcome.node.blocks[2].type = "UnorderedList"
    /\ Len(outcome.node.blocks[2].items[1].blocks) = 2
    /\ \E l \in 1..(Len(tokens) - 1) : ~Covered(outcome.node, l)
    /\ outcome.node.blocks[1].limit_line < outcome.node.blocks[2].start_line


(***************************************************************************)
(* Parser.parse step by step: the statements before its loop, then one     *)
(* action per iteration of the loop. While it runs, outcome holds the      *)
(* cursor and the blocks collected so far. An iteration whose _parse_block  *)
(* call returns with the cursor where it was, or never returns, leaves the *)
(* parser where it is (the blocks such a run piles up are never returned   *)
(* to anyone and are not kept).                                            *)
(***************************************************************************)

\* Parser.parse, lines before the loop, once _parse_front_matter has returned
\* or raised `fm`
ParseStartOn(fm) ==
    IF fm.st # "ok"
    THEN phase' = "parsed" /\ outcome' = fm
    ELSE phase' = "parsing" /\ outcome' = Ok(<< fm.node >>, fm.pos)

\* Parser.parse: the statements before the loop
ParseStart ==
    /\ phase = "start"
    /\ IF Check(tokens, 1, {"FRONT_MATTER"})
       THEN ParseStartOn(ParseFrontMatter(tokens, 1))
       ELSE phase' = "parsing" /\ outcome' = Ok(<<>>, 1)
    /\ UNCHANGED << tokens, printer, returned >>

\* Parser.parse: the loop body once _parse_block has returned or raised `r`
ParseIterationOn(r) ==
    IF r.st = "hang" \/ (r.st = "ok" /\ r.pos = outcome.pos)
    THEN UNCHANGED << phase, outcome >>
    ELSE IF r.st # "ok"
    THEN phase' = "parsed" /\ outcome' = r
    ELSE phase' = "parsing" /\ outcome' = Ok(Append(outcome.node, r.node), r.pos)

\* Parser.parse: one test of the loop condition and, if it holds, one iteration;
\* else the return of the Document
ParseIteration ==
    /\ phase = "parsing"
    /\ IF Check(tokens, outcome.pos, {"EOF"})
       THEN /\ phase' = "parsed"
            /\ outcome' = Ok(Document(outcome.node, 1, tokens[outcome.pos].line),
                             outcome.pos)
       ELSE IF Check(tokens, outcome.pos, {"BLANK"})
       THEN phase' = "parsing" /\ outcome' = Ok(outcome.node, outcome.pos + 1)
       ELSE ParseIterationOn(ParseBlock(tokens, outcome.pos))
    /\ UNCHANGED << tokens, printer, returned >>

\* the tokens of the stepwise specification: blocks of one token, a list with
\* an indented body, a conditional block, and the two markers that are blocks
\* of no kind
StepAlphabet ==
    { T("TEXT", <<"t">>, 0),
      T("TEXT", <<"c">>, 2),
      T("BLANK", <<>>, 0),
      T("HEADING", <<"#", " ", "A">>, 0),
      T("UL_MARKER", <<"-", " ", "a">>, 0),
      T("CONDITIONAL_BLOCK_OPEN", <<":", ":", ":", "p", "y", "t", "h", "o", "n">>, 0),
      T("CONDITIONAL_BLOCK_CLOSE", <<":", ":", ":">>, 0),
      T("FRONT_MATTER", <<"-", "-", "-">>, 0) }

\* the longest token sequence of the stepwise specification
MaxLenStep == 3

InitStep == InitWith(TokenSeqs(StepAlphabet, MaxLenStep))

NextStep == ParseStart \/ ParseIteration \/ DoPrint

\* a running parser keeps running: each statement that can be executed is
\* executed
SpecStep ==
    InitStep /\ [][NextStep]_vars
        /\ WF_vars(ParseStart) /\ WF_vars(ParseIteration)

\* the stepwise parse ends as Parser.parse does
StepAgreesWithParse == Parsed => outcome = Parse(tokens)

\* C15: for every token sequence ended by one EOF token Parser.parse terminates
\* (returns a Document or raises): every _parse_block call consumes a token, so
\* every iteration of the block loops moves the cursor, whatever the token
\* (a stray CONDITIONAL_BLOCK_CLOSE or FRONT_MATTER included).
C15_ParseTerminates == <>(phase = "parsed")

====
